---- MODULE Spec2Model ----
(***************************************************************************)
(* Model of init-s3.py: a one-shot script that creates bucket 'java-http'  *)
(* on a local S3 endpoint, enables versioning on it and uploads            *)
(* /build/tmp/agreements.zip under key 'agreements.zip'.                   *)
(*                                                                         *)
(* The script is a straight line of statements; an exception raised by any *)
(* statement is not caught and ends the interpreter.  Each remote call is  *)
(* modelled as two steps, the request being issued and the blocking call   *)
(* returning, so that ordering and retry properties are checkable.  The    *)
(* object store and the local file system are the environment: the store   *)
(* changes only through the script's requests and through a reset between  *)
(* runs, the file only between runs.                                       *)
(***************************************************************************)
EXTENDS Naturals, Sequences, FiniteSets

VARIABLES
    pc,          \* the statement the interpreter is at, or "done"/"failed"/"idle"
    run,         \* number of the current run of the script
    session,     \* line 4: <<>> before boto3.Session(...) has run
    s3_client,   \* line 10: <<>> before session.client(...) has run
    inflight,    \* the remote request the script is blocked on, <<>> if none
    issued,      \* per remote operation: requests issued in this run
    returned,    \* per remote operation: calls that returned in this run
    completed,   \* the steps of this run that completed without raising
    data,        \* line 32: <<body>> while the file handle is open, else <<>>
    pending,     \* exception travelling through the with-block's exit
    err,         \* the unhandled exception that ended the run, or "none"
    failedAt,    \* the statement that raised it, or "none"
    exitCode,    \* "running", "zero" or "nonzero"
    store,       \* the backing store of the S3 endpoint
    file,        \* the local file system at zip_file_path: <<>> or <<body>>
    reuse,       \* whether the endpoint accepts re-creating an owned bucket
    startStore   \* history: the store as this run found it

vars == <<pc, run, session, s3_client, inflight, issued, returned, completed,
          data, pending, err, failedAt, exitCode, store, file, reuse, startStore>>

(* ------------------------------ bounds -------------------------------- *)

MaxRuns == 3

(* --------------------------- program literals ------------------------- *)

AccessKey == "test"
SecretKey == "test"
Region == "ap-south-1"
EndpointUrl == "http://localhost:4566"
BucketName == "java-http"
LocationConstraint == "ap-south-1"
VersioningStatusSuspended == "Suspended"
VersioningStatus == "Enabled"
zip_file_path == "/build/tmp/agreements.zip"
ObjectKey == "agreements.zip"

(* ----------------------------- environment ---------------------------- *)

\* Possible contents of the source file (byte strings; the first is the zip
\* end-of-central-directory signature).
FileBodies == { <<80, 75, 5, 6>>, <<80, 75, 3, 4, 0>> }

FileStates == { <<>> } \cup { <<b>> : b \in FileBodies }

Requests == {"create_bucket", "put_bucket_versioning", "upload_fileobj"}

Steps == {"session", "client", "create_bucket", "put_bucket_versioning", "upload_fileobj"}

NoBuckets == [b \in {} |-> "Unversioned"]

EmptyStore == [buckets |-> {}, versioning |-> NoBuckets, objects |-> <<>>, nextVid |-> 1]

ZeroCount == [r \in Requests |-> 0]

(* --------------------- the S3 endpoint (collaborator) ------------------ *)

\* The versions stored under key k, oldest first.
VersionsAt(st, k) == SelectSeq(st.objects, LAMBDA o : o.key = k)

\* create_bucket as the endpoint answers it: a new bucket starts unversioned;
\* an existing one is a conflict unless the endpoint allows bucket reuse.
SvcCreateBucket(st, name, region, allowReuse) ==
    IF name \in st.buckets
    THEN [store |-> st, err |-> IF allowReuse THEN "none" ELSE "BucketAlreadyExists"]
    ELSE [store |-> [st EXCEPT !.buckets = st.buckets \cup {name},
                               !.versioning = [b \in st.buckets \cup {name} |->
                                   IF b = name THEN "Unversioned" ELSE st.versioning[b]]],
          err |-> "none"]

\* put_bucket_versioning as the endpoint answers it.
SvcPutBucketVersioning(st, name, status) ==
    IF name \notin st.buckets
    THEN [store |-> st, err |-> "NoSuchBucket"]
    ELSE [store |-> [st EXCEPT !.versioning[name] = status], err |-> "none"]

\* An object put as the endpoint records it: with versioning Enabled the body
\* becomes a new version beside the earlier ones; otherwise it takes the place
\* of the key's unversioned ("null", here 0) version.
SvcPutObject(st, name, k, body) ==
    IF name \notin st.buckets
    THEN [store |-> st, err |-> "NoSuchBucket"]
    ELSE IF st.versioning[name] = "Enabled"
    THEN [store |-> [st EXCEPT !.objects = Append(st.objects,
                                   [key |-> k, vid |-> st.nextVid, body |-> body]),
                               !.nextVid = st.nextVid + 1],
          err |-> "none"]
    ELSE [store |-> [st EXCEPT !.objects = Append(
                                   SelectSeq(st.objects, LAMBDA o : ~(o.key = k /\ o.vid = 0)),
                                   [key |-> k, vid |-> 0, body |-> body])],
          err |-> "none"]

(* ------------------------------ the script ---------------------------- *)

Terminal == {"done", "failed"}

Request(op, param, k, body) ==
    [op |-> op, Bucket |-> BucketName, Param |-> param, Key |-> k, Body |-> body]

\* An exception nothing catches: the interpreter prints it and exits non-zero.
Raise(e, at) ==
    /\ pc' = "failed"
    /\ err' = e
    /\ failedAt' = at
    /\ exitCode' = "nonzero"

\* A blocking call returns: the request is no longer in flight.
Returns(op) ==
    /\ inflight' = <<>>
    /\ returned' = [returned EXCEPT ![op] = returned[op] + 1]

\* Lines 4-8: boto3.Session(...) builds the credentials/region context.
Session ==
    /\ pc = "session"
    /\ session' = <<AccessKey, SecretKey, Region>>
    /\ completed' = completed \cup {"session"}
    /\ pc' = "client"
    /\ UNCHANGED <<run, s3_client, inflight, issued, returned, data, pending, err,
                   failedAt, exitCode, store, file, reuse, startStore>>

\* Variant of Client: the statements are out of order, the upload block comes
\* right after the client is built.
ClientThenUpload ==
    /\ pc = "client"
    /\ session # <<>>
    /\ s3_client' = <<"s3", EndpointUrl, Region>>
    /\ completed' = completed \cup {"client"}
    /\ pc' = "open"
    /\ UNCHANGED <<run, session, inflight, issued, returned, data, pending, err,
                   failedAt, exitCode, store, file, reuse, startStore>>

\* Variant of Client: the script checks os.path.exists(zip_file_path) before
\* it talks to the endpoint.
ClientChecksFileFirst ==
    /\ pc = "client"
    /\ session # <<>>
    /\ s3_client' = <<"s3", EndpointUrl, Region>>
    /\ IF file = <<>>
       THEN /\ Raise("FileNotFound", "client")
            /\ UNCHANGED completed
       ELSE /\ completed' = completed \cup {"client"}
            /\ pc' = "create_bucket"
            /\ UNCHANGED <<err, failedAt, exitCode>>
    /\ UNCHANGED <<run, session, inflight, issued, returned, data, pending,
                   store, file, reuse, startStore>>

\* Lines 10-14: session.client("s3", endpoint_url=..., region_name=...).
Client ==
    /\ pc = "client"
    /\ session # <<>>
    /\ s3_client' = <<"s3", EndpointUrl, Region>>
    /\ completed' = completed \cup {"client"}
    /\ pc' = "create_bucket"
    /\ UNCHANGED <<run, session, inflight, issued, returned, data, pending, err,
                   failedAt, exitCode, store, file, reuse, startStore>>

\* Lines 16-21: the create-bucket request is sent and the script blocks.
CallCreateBucket ==
    /\ pc = "create_bucket"
    /\ inflight = <<>>
    /\ inflight' = <<Request("create_bucket", LocationConstraint, "", <<>>)>>
    /\ issued' = [issued EXCEPT !["create_bucket"] = issued["create_bucket"] + 1]
    /\ UNCHANGED <<pc, run, session, s3_client, returned, completed, data, pending, err,
                   failedAt, exitCode, store, file, reuse, startStore>>

\* Variant of ReturnCreateBucket: the call sits in a try/except that passes.
ReturnCreateBucketIgnoresError ==
    /\ pc = "create_bucket"
    /\ inflight # <<>>
    /\ LET req == inflight[1]
           r == SvcCreateBucket(store, req.Bucket, req.Param, reuse)
       IN /\ store' = r.store
          /\ Returns("create_bucket")
          /\ pc' = "put_bucket_versioning"
          /\ completed' = IF r.err = "none" THEN completed \cup {"create_bucket"}
                          ELSE completed
    /\ UNCHANGED <<run, session, s3_client, issued, data, pending, err, failedAt, exitCode,
                   file, reuse, startStore>>

\* Lines 16-21: the endpoint answers; an error response is raised.
ReturnCreateBucket ==
    /\ pc = "create_bucket"
    /\ inflight # <<>>
    /\ LET req == inflight[1]
           r == SvcCreateBucket(store, req.Bucket, req.Param, reuse)
       IN /\ store' = r.store
          /\ Returns("create_bucket")
          /\ IF r.err = "none"
             THEN /\ pc' = "put_bucket_versioning"
                  /\ completed' = completed \cup {"create_bucket"}
                  /\ UNCHANGED <<err, failedAt, exitCode>>
             ELSE /\ Raise(r.err, "create_bucket")
                  /\ UNCHANGED completed
    /\ UNCHANGED <<run, session, s3_client, issued, data, pending, file, reuse, startStore>>

\* Lines 23-26: the put-bucket-versioning request is sent.
CallPutBucketVersioning ==
    /\ pc = "put_bucket_versioning"
    /\ inflight = <<>>
    /\ inflight' = <<Request("put_bucket_versioning", VersioningStatus, "", <<>>)>>
    /\ issued' = [issued EXCEPT !["put_bucket_versioning"] = issued["put_bucket_versioning"] + 1]
    /\ UNCHANGED <<pc, run, session, s3_client, returned, completed, data, pending, err,
                   failedAt, exitCode, store, file, reuse, startStore>>

\* Lines 23-26: the endpoint answers.
ReturnPutBucketVersioning ==
    /\ pc = "put_bucket_versioning"
    /\ inflight # <<>>
    /\ LET req == inflight[1]
           r == SvcPutBucketVersioning(store, req.Bucket, req.Param)
       IN /\ store' = r.store
          /\ Returns("put_bucket_versioning")
          /\ IF r.err = "none"
             THEN /\ pc' = "open"
                  /\ completed' = completed \cup {"put_bucket_versioning"}
                  /\ UNCHANGED <<err, failedAt, exitCode>>
             ELSE /\ Raise(r.err, "put_bucket_versioning")
                  /\ UNCHANGED completed
    /\ UNCHANGED <<run, session, s3_client, issued, data, pending, file, reuse, startStore>>

\* Variant of OpenFile: a missing file makes the script delete what it created.
OpenFileCleansUp ==
    /\ pc = "open"
    /\ IF file = <<>>
       THEN /\ Raise("FileNotFound", "open")
            /\ store' = EmptyStore
            /\ UNCHANGED data
       ELSE /\ data' = file
            /\ pc' = "upload_fileobj"
            /\ UNCHANGED <<err, failedAt, exitCode, store>>
    /\ UNCHANGED <<run, session, s3_client, inflight, issued, returned, completed, pending,
                   file, reuse, startStore>>

\* Line 32: open(zip_file_path, 'rb') raises FileNotFoundError before the with
\* block is entered, or yields the handle `data`.
OpenFile ==
    /\ pc = "open"
    /\ IF file = <<>>
       THEN /\ Raise("FileNotFound", "open")
            /\ UNCHANGED data
       ELSE /\ data' = file
            /\ pc' = "upload_fileobj"
            /\ UNCHANGED <<err, failedAt, exitCode>>
    /\ UNCHANGED <<run, session, s3_client, inflight, issued, returned, completed, pending,
                   store, file, reuse, startStore>>

\* Variant of CallUpload: the local path is passed as the object key.
CallUploadPathAsKey ==
    /\ pc = "upload_fileobj"
    /\ inflight = <<>>
    /\ data # <<>>
    /\ inflight' = <<Request("upload_fileobj", "", zip_file_path, data[1])>>
    /\ issued' = [issued EXCEPT !["upload_fileobj"] = issued["upload_fileobj"] + 1]
    /\ UNCHANGED <<pc, run, session, s3_client, returned, completed, data, pending, err,
                   failedAt, exitCode, store, file, reuse, startStore>>

\* Line 33: upload_fileobj streams the handle's bytes to (bucket, key).
CallUpload ==
    /\ pc = "upload_fileobj"
    /\ inflight = <<>>
    /\ data # <<>>
    /\ inflight' = <<Request("upload_fileobj", "", ObjectKey, data[1])>>
    /\ issued' = [issued EXCEPT !["upload_fileobj"] = issued["upload_fileobj"] + 1]
    /\ UNCHANGED <<pc, run, session, s3_client, returned, completed, data, pending, err,
                   failedAt, exitCode, store, file, reuse, startStore>>

\* Line 33: the endpoint stores the object (or answers NoSuchBucket); control
\* then leaves the with block, carrying the exception if there is one.
ReturnUpload ==
    /\ pc = "upload_fileobj"
    /\ inflight # <<>>
    /\ LET req == inflight[1]
           r == SvcPutObject(store, req.Bucket, req.Key, req.Body)
       IN /\ store' = r.store
          /\ Returns("upload_fileobj")
          /\ pending' = r.err
          /\ completed' = IF r.err = "none" THEN completed \cup {"upload_fileobj"}
                          ELSE completed
    /\ pc' = "exit_with"
    /\ UNCHANGED <<run, session, s3_client, issued, data, err, failedAt, exitCode,
                   file, reuse, startStore>>

\* Line 33: the endpoint rejects the upload (permissions, malformed request).
UploadRejected ==
    /\ pc = "upload_fileobj"
    /\ inflight # <<>>
    /\ Returns("upload_fileobj")
    /\ pending' = "UploadRejected"
    /\ pc' = "exit_with"
    /\ UNCHANGED <<run, session, s3_client, issued, completed, data, err, failedAt,
                   exitCode, store, file, reuse, startStore>>

\* Variant of EndpointUnreachable: the failed call is tried again.
EndpointUnreachableRetries ==
    /\ inflight # <<>>
    /\ Returns(inflight[1].op)
    /\ UNCHANGED <<pc, run, session, s3_client, issued, completed, data, pending, err,
                   failedAt, exitCode, store, file, reuse, startStore>>

\* Variant of EndpointUnreachable: a connection error in create_bucket is
\* logged and the script goes on to the next statement.
EndpointUnreachableGoesOn ==
    /\ inflight # <<>>
    /\ Returns(inflight[1].op)
    /\ IF inflight[1].op = "upload_fileobj"
       THEN /\ pending' = "ConnectionError"
            /\ pc' = "exit_with"
            /\ UNCHANGED <<err, failedAt, exitCode>>
       ELSE IF inflight[1].op = "create_bucket"
       THEN /\ pc' = "put_bucket_versioning"
            /\ UNCHANGED <<pending, err, failedAt, exitCode>>
       ELSE /\ Raise("ConnectionError", inflight[1].op)
            /\ UNCHANGED pending
    /\ UNCHANGED <<run, session, s3_client, issued, completed, data, store, file, reuse,
                   startStore>>

\* Lines 16-33: the endpoint cannot be reached; the blocked call raises.  Inside
\* the with block the exception first passes through the block's exit.
EndpointUnreachable ==
    /\ inflight # <<>>
    /\ Returns(inflight[1].op)
    /\ IF inflight[1].op = "upload_fileobj"
       THEN /\ pending' = "ConnectionError"
            /\ pc' = "exit_with"
            /\ UNCHANGED <<err, failedAt, exitCode>>
       ELSE /\ Raise("ConnectionError", inflight[1].op)
            /\ UNCHANGED pending
    /\ UNCHANGED <<run, session, s3_client, issued, completed, data, store, file, reuse,
                   startStore>>

\* Variant of ExitWith: no with block, data.close() follows the upload and is
\* skipped when the upload raises.
ExitWithLeaksOnError ==
    /\ pc = "exit_with"
    /\ pending' = "none"
    /\ IF pending = "none"
       THEN /\ data' = <<>>
            /\ pc' = "done"
            /\ exitCode' = "zero"
            /\ UNCHANGED <<err, failedAt>>
       ELSE /\ Raise(pending, "upload_fileobj")
            /\ UNCHANGED data
    /\ UNCHANGED <<run, session, s3_client, inflight, issued, returned, completed,
                   store, file, reuse, startStore>>

\* Variant of ExitWith: the context manager suppresses the exception.
ExitWithSuppresses ==
    /\ pc = "exit_with"
    /\ data' = <<>>
    /\ pending' = "none"
    /\ pc' = "done"
    /\ exitCode' = "zero"
    /\ UNCHANGED <<run, session, s3_client, inflight, issued, returned, completed,
                   err, failedAt, store, file, reuse, startStore>>

\* Lines 32-33: leaving the with block closes the handle, on success and on an
\* exception alike; then the exception propagates, or the script ends.
ExitWith ==
    /\ pc = "exit_with"
    /\ data' = <<>>
    /\ pending' = "none"
    /\ IF pending = "none"
       THEN /\ pc' = "done"
            /\ exitCode' = "zero"
            /\ UNCHANGED <<err, failedAt>>
       ELSE Raise(pending, "upload_fileobj")
    /\ UNCHANGED <<run, session, s3_client, inflight, issued, returned, completed,
                   store, file, reuse, startStore>>

(* --------------------------- between two runs -------------------------- *)

\* The script is started again: a new interpreter, every name unbound.  The
\* file at zip_file_path may have changed meanwhile, and the backing store is
\* either kept or reset to empty.
StartRun(f, reset) ==
    /\ pc \in Terminal
    /\ run < MaxRuns
    /\ run' = run + 1
    /\ pc' = "session"
    /\ session' = <<>>
    /\ s3_client' = <<>>
    /\ inflight' = <<>>
    /\ issued' = ZeroCount
    /\ returned' = ZeroCount
    /\ completed' = {}
    /\ data' = <<>>
    /\ pending' = "none"
    /\ err' = "none"
    /\ failedAt' = "none"
    /\ exitCode' = "running"
    /\ file' = f
    /\ store' = IF reset THEN EmptyStore ELSE store
    /\ startStore' = store'
    /\ UNCHANGED reuse

Rerun == \E f \in FileStates : StartRun(f, FALSE)

RerunAfterReset == \E f \in FileStates : StartRun(f, TRUE)

(* ---------------------------- specifications --------------------------- *)

InitRun ==
    /\ pc = "session"
    /\ run = 1
    /\ session = <<>>
    /\ s3_client = <<>>
    /\ inflight = <<>>
    /\ issued = ZeroCount
    /\ returned = ZeroCount
    /\ completed = {}
    /\ data = <<>>
    /\ pending = "none"
    /\ err = "none"
    /\ failedAt = "none"
    /\ exitCode = "running"
    /\ store = EmptyStore
    /\ startStore = EmptyStore
    /\ file \in FileStates

\* The endpoint the script is written for: re-creating a bucket is a conflict.
Init == InitRun /\ reuse = FALSE

\* The scenario "allowing bucket reuse": the endpoint accepts a create-bucket
\* for a bucket the caller already owns.
InitReuse == InitRun /\ reuse = TRUE

\* One step of the interpreter.
Step ==
    \/ Session
    \/ Client
    \/ CallCreateBucket
    \/ ReturnCreateBucket
    \/ CallPutBucketVersioning
    \/ ReturnPutBucketVersioning
    \/ OpenFile
    \/ CallUpload
    \/ ReturnUpload
    \/ UploadRejected
    \/ EndpointUnreachable
    \/ ExitWith

Next == Step \/ Rerun \/ RerunAfterReset

Spec == Init /\ [][Next]_vars

SpecReuse == InitReuse /\ [][Next]_vars

\* The interpreter keeps executing, and every blocking call returns (with a
\* response or with an error).
FairSpec == Init /\ [][Next]_vars /\ WF_vars(Step)

(* ------------------------------- claims -------------------------------- *)

BucketExists == BucketName \in store.buckets

VersioningEnabled == BucketExists /\ store.versioning[BucketName] = "Enabled"

\* The versions stored at the fixed key.
Objects == VersionsAt(store, ObjectKey)

\* This run started against an empty backing store.
Fresh == startStore = EmptyStore

\* The endpoint answered every request of this run (no ConnectionError).
Answered == err # "ConnectionError"

\* The position of the run in Unstarted (0), SessionReady (1), BucketReady (2),
\* VersioningEnabled (3), ObjectUploaded (4).
RunState ==
    IF "upload_fileobj" \in completed THEN 4
    ELSE IF "put_bucket_versioning" \in completed THEN 3
    ELSE IF "create_bucket" \in completed THEN 2
    ELSE IF "session" \in completed THEN 1
    ELSE 0

\* C1: a run that starts on an empty store with the source file present and
\* completes leaves the bucket existing, its versioning Enabled, and exactly
\* one object in the store, at key 'agreements.zip', whose bytes are the
\* file's bytes.
C1_FreshRunProvisions ==
    (Fresh /\ file # <<>> /\ pc = "done") =>
        /\ BucketExists
        /\ store.versioning[BucketName] = "Enabled"
        /\ Len(store.objects) = 1
        /\ Len(Objects) = 1
        /\ Objects[1].body = file[1]

C1_Witness ==
    /\ run = 1
    /\ Fresh
    /\ pc = "done"
    /\ Len(Objects) = 1
    /\ Objects[1].body = <<80, 75, 5, 6>>

\* C2: whenever the upload request has been issued in a run, this run's
\* create-bucket call has returned successfully, this run's
\* put-bucket-versioning call has returned successfully, and the store holds
\* the bucket with versioning Enabled.
C2_UploadAfterBucketAndVersioning ==
    issued["upload_fileobj"] > 0 =>
        /\ returned["create_bucket"] = 1
        /\ "create_bucket" \in completed
        /\ returned["put_bucket_versioning"] = 1
        /\ "put_bucket_versioning" \in completed
        /\ BucketExists
        /\ store.versioning[BucketName] = "Enabled"

C2_Witness ==
    /\ issued["upload_fileobj"] = 1
    /\ returned["upload_fileobj"] = 0
    /\ inflight # <<>>

\* C3: in a run that finds the bucket already in the store, no
\* put-bucket-versioning and no upload request is ever issued and the store
\* stays as the run found it; the run does not complete, it fails at the
\* create-bucket statement, and whenever the endpoint answered the request the
\* error is BucketAlreadyExists.
C3_SecondRunFailsAtCreate ==
    (BucketName \in startStore.buckets) =>
        /\ issued["put_bucket_versioning"] = 0
        /\ issued["upload_fileobj"] = 0
        /\ store = startStore
        /\ pc # "done"
        /\ pc = "failed" => failedAt = "create_bucket"
        /\ (pc = "failed" /\ Answered) => err = "BucketAlreadyExists"

C3_Witness ==
    /\ run = 2
    /\ Len(VersionsAt(startStore, ObjectKey)) = 1
    /\ pc = "failed"
    /\ err = "BucketAlreadyExists"

\* C4: in a run on an empty store with the source file missing, whenever the
\* endpoint answered the requests the run fails at open(), with FileNotFound:
\* both earlier remote steps completed, the store holds the bucket with
\* versioning Enabled and no object, and no upload request was issued.  Such
\* a run never completes.
C4_MissingFileFailsAtUploadStep ==
    (Fresh /\ file = <<>>) =>
        /\ pc # "done"
        /\ issued["upload_fileobj"] = 0
        /\ (pc = "failed" /\ Answered) =>
              /\ failedAt = "open"
              /\ err = "FileNotFound"
              /\ {"create_bucket", "put_bucket_versioning"} \subseteq completed
              /\ BucketExists
              /\ store.versioning[BucketName] = "Enabled"
              /\ Objects = <<>>
              /\ store.objects = <<>>

C4_Witness ==
    /\ Fresh
    /\ file = <<>>
    /\ pc = "failed"
    /\ err = "FileNotFound"
    /\ VersioningEnabled

\* C5: the file handle is open only while the script is inside the with
\* block (at the upload call or leaving the block), and it is closed in every
\* terminal state.
C5_HandleScoped ==
    /\ data # <<>> => pc \in {"upload_fileobj", "exit_with"}
    /\ pc \in Terminal => data = <<>>

C5_Witness ==
    /\ pc = "failed"
    /\ err = "UploadRejected"
    /\ issued["upload_fileobj"] = 1
    /\ data = <<>>

\* C6: the process has exited exactly in the terminal states; it exits zero
\* if and only if all five steps completed, and a run in which a step raised
\* ends failed with that error and a non-zero exit.
C6_ExitCode ==
    /\ pc \in Terminal <=> exitCode # "running"
    /\ pc \in Terminal => (exitCode = "zero" <=> completed = Steps)
    /\ pc \in Terminal => (exitCode = "nonzero" <=> err # "none")
    /\ pc = "done" <=> exitCode = "zero"
    /\ err \in {"none", "ConnectionError", "BucketAlreadyExists", "NoSuchBucket",
                "FileNotFound", "UploadRejected"}

C6_Witness ==
    /\ pc = "failed"
    /\ err = "ConnectionError"
    /\ failedAt = "upload_fileobj"
    /\ exitCode = "nonzero"

\* C7: every upload the endpoint accepts from the script finds versioning
\* Enabled and adds one version at the key, with a version id no earlier
\* version has, leaving every earlier version as it was; so a second upload
\* to the same key leaves two versions.
C7_SecondUploadKeepsFirst ==
    /\ [][(pc = "upload_fileobj" /\ pc' = "exit_with" /\ pending' = "none") =>
            /\ store.versioning[BucketName] = "Enabled"
            /\ Len(Objects') = Len(Objects) + 1
            /\ \A i \in 1..Len(Objects) :
                  /\ Objects'[i] = Objects[i]
                  /\ Objects'[i].vid # Objects'[Len(Objects')].vid]_vars
    /\ [](\A i, j \in 1..Len(Objects) : i # j => Objects[i].vid # Objects[j].vid)

C7_Witness ==
    /\ pc = "done"
    /\ Len(Objects) = 2
    /\ Objects[1].vid # Objects[2].vid
    /\ Objects[1].body # Objects[2].body

\* C8: within a run the state stays or moves to the next one in the sequence;
\* a step that fails leaves the state and the store as they were; a halted
\* run takes no further step; and in a failed run the bucket and the
\* versioning flag that completed steps set are still in the store.
C8_LinearNoRollback ==
    /\ [][/\ run' = run =>
                /\ RunState' \in {RunState, RunState + 1}
                /\ pc' = "failed" => (RunState' = RunState /\ store' = store)
          /\ pc \in Terminal => run' = run + 1]_vars
    /\ [](pc = "failed" =>
            /\ RunState >= 2 => BucketExists
            /\ RunState >= 3 => store.versioning[BucketName] = "Enabled")
    /\ [](\A n \in 1..4 : RunState >= n + 1 => RunState >= n)
    /\ []("create_bucket" \in completed \/ RunState <= 1)

C8_Witness ==
    /\ pc = "failed"
    /\ failedAt = "open"
    /\ RunState = 3
    /\ VersioningEnabled

\* C9 as stated: a run whose create-bucket call returned without success
\* fails at put-bucket-versioning with NoSuchBucket.
C9_Original ==
    (pc = "failed" /\ returned["create_bucket"] = 1 /\ "create_bucket" \notin completed) =>
        /\ failedAt = "put_bucket_versioning"
        /\ err = "NoSuchBucket"

\* C9 amended: put-bucket-versioning is issued only after this run's
\* create-bucket succeeded, so it finds the bucket; a run whose create-bucket
\* did not succeed ends at that statement without issuing
\* put-bucket-versioning, and no run ends with NoSuchBucket.
C9_VersioningOnlyAfterCreate ==
    /\ issued["put_bucket_versioning"] > 0 =>
          ("create_bucket" \in completed /\ BucketExists)
    /\ (returned["create_bucket"] = 1 /\ "create_bucket" \notin completed) =>
          /\ pc = "failed"
          /\ failedAt = "create_bucket"
          /\ issued["put_bucket_versioning"] = 0
    /\ err # "NoSuchBucket"
    /\ pending # "NoSuchBucket"

C9_Witness ==
    /\ pc = "failed"
    /\ failedAt = "create_bucket"
    /\ err = "ConnectionError"
    /\ ~BucketExists
    /\ issued["put_bucket_versioning"] = 0

\* C10: every run reaches a terminal state; a run that ends "done" completed
\* all five steps; each remote request is issued at most once per run; a
\* request is issued only when no other is in flight and the previous remote
\* call has returned.
C10_TerminatesNoRetry ==
    /\ (pc \notin Terminal) ~> (pc \in Terminal)
    /\ [](pc = "done" => completed = Steps)
    /\ [](\A r \in Requests : issued[r] <= 1 /\ returned[r] <= issued[r])
    /\ [](issued["put_bucket_versioning"] = 1 => returned["create_bucket"] = 1)
    /\ [](issued["upload_fileobj"] = 1 => returned["put_bucket_versioning"] = 1)
    /\ [](inflight # <<>> => issued[inflight[1].op] = returned[inflight[1].op] + 1)
    /\ [](pc \in Terminal => inflight = <<>>)

C10_Witness ==
    /\ run = MaxRuns
    /\ pc = "done"
    /\ \A r \in Requests : issued[r] = 1 /\ returned[r] = 1

====
